---- MODULE Spec2Model ----
(***************************************************************************)
(* A model of pixiv-downloader: the request pipeline and session of        *)
(* pixiv/core.py (PixivApi), its page cursor, the work classifier and the  *)
(* download orchestrator of pixiv/download.py (Downloader).                *)
(*                                                                         *)
(* The program is sequential.  Each part is checked under its own          *)
(* specification over the variables of that part:                          *)
(*   SpecKind      worktype applied to records                             *)
(*   SpecPages     iteration of a page cursor against a paginating server  *)
(*   SpecSession   _authenticate and _request against a token server       *)
(*   SpecDownload  the Downloader against a remote catalogue and a local   *)
(*                 file tree                                               *)
(*   SpecUser      the Downloader's user-catalogue calls                   *)
(*   SpecApi       the request pipelines of pixiv/core.py and pixiv/api.py *)
(*                 (PixivApiBase): attempts, cookies, single-page and      *)
(*                 paginated requests                                      *)
(***************************************************************************)
EXTENDS Integers, Sequences, FiniteSets, TLC

VARIABLES
    info,        \* SpecKind: the record handed to worktype
    kind,        \* SpecKind: what worktype returned or raised ("unset" before)
    handler,     \* SpecKind: where download_work sent the record ("unset" before)
    server,      \* SpecPages: the paginated resource, [n, k, falsy]
    cursor,      \* SpecPages: the iteration state of one Response object
    requested,   \* SpecPages: page numbers requested so far, in order
    consumed,    \* SpecPages: records handed to the consumer so far, in order
    session,     \* SpecSession: _access_token, _refresh_token, _headers['Authorization']
    netcalls,    \* SpecSession: calls of the scraper's request made so far
    last,        \* SpecSession: the last operation, its inputs and how it ended
    remote,      \* SpecDownload: the server's catalogue (works, novels)
    fs,          \* SpecDownload: the local tree under outdir, path -> [mtime, data]
    now,         \* SpecDownload: the clock, in seconds
    run,         \* SpecDownload: the last Downloader call and what it did
    prev,        \* SpecDownload: the Downloader call before it
    nruns,       \* SpecDownload: the number of Downloader calls made
    cookies,     \* SpecApi: PixivApiBase.cookies, name -> value
    setcookies,  \* SpecApi: the Set-Cookie headers of the successful responses, in order
    call         \* SpecApi: the last pipeline call, its inputs and how it ended

varsKind == <<info, kind, handler>>
varsPages == <<server, cursor, requested, consumed>>
varsSession == <<session, netcalls, last>>
varsDownload == <<remote, fs, now, run, prev, nruns>>
varsApi == <<cookies, setcookies, call>>
notKind == <<varsPages, varsSession, varsDownload, varsApi>>
notPages == <<varsKind, varsSession, varsDownload, varsApi>>
notSession == <<varsKind, varsPages, varsDownload, varsApi>>
notDownload == <<varsKind, varsPages, varsSession, varsApi>>
notApi == <<varsKind, varsPages, varsSession, varsDownload>>
vars == <<info, kind, handler, server, cursor, requested, consumed, session, netcalls, last,
          remote, fs, now, run, prev, nruns, cookies, setcookies, call>>

(***************************************************************************)
(* JSON values that the code tests for truthiness                          *)
(***************************************************************************)
JNull == [t |-> "null"]
JInt(n) == [t |-> "int", v |-> n]

\* Python truthiness of a decoded JSON value: None and 0 are falsy.
Truthy(j) == ~(j.t = "null" \/ (j.t = "int" /\ j.v = 0))

(***************************************************************************)
(* worktype (core.py 52-63)                                                *)
(*                                                                         *)
(* A record is modelled by the three things worktype probes:               *)
(*   text_length  "absent" or the decoded value ("0", "120")               *)
(*   is_manga     "absent", "false" or "true"                              *)
(*   metadata     "absent"      no metadata key                            *)
(*                "null"        metadata: null                             *)
(*                "pages"       a map without zip_urls: {pages: [...]}     *)
(*                "pageiter"    a map without zip_urls: {pageiter: [...]}  *)
(*                "zip_null"    {zip_urls: null}                           *)
(*                "zip_other"   {zip_urls: {...}} without ugoira600x600    *)
(*                "zip_ugoira"  {zip_urls: {ugoira600x600: url}}           *)
(***************************************************************************)
TextLengths == {"absent", "0", "120"}
MangaFlags == {"absent", "false", "true"}
Metadatas == {"absent", "null", "pages", "pageiter", "zip_null", "zip_other", "zip_ugoira"}
Infos == [text_length : TextLengths, is_manga : MangaFlags, metadata : Metadatas]

\* 'ugoira600x600' in info.metadata.zip_urls, with the exception it can raise:
\* attribute access on a missing key or on None is AttributeError, `in None`
\* is TypeError.
UgoiraProbe(i) ==
    CASE i.metadata \in {"absent", "null", "pages", "pageiter"} -> "AttributeError"
      [] i.metadata = "zip_null" -> "TypeError"
      [] i.metadata = "zip_other" -> "false"
      [] i.metadata = "zip_ugoira" -> "true"

\* a faulty variant: the manga test placed before the text_length test
worktype_manga_first(i) ==
    IF i.is_manga = "absent" THEN "AttributeError"
    ELSE IF i.is_manga = "true" THEN "manga"
    ELSE IF i.text_length # "absent" THEN "novel"
    ELSE IF UgoiraProbe(i) = "TypeError" THEN "TypeError"
    ELSE IF UgoiraProbe(i) = "true" THEN "ugoira"
    ELSE "illust"

worktype(i) ==
    IF i.text_length # "absent" THEN "novel"
    ELSE IF i.is_manga = "absent" THEN "AttributeError"
    ELSE IF i.is_manga = "true" THEN "manga"
    ELSE IF UgoiraProbe(i) = "TypeError" THEN "TypeError"
    ELSE IF UgoiraProbe(i) = "true" THEN "ugoira"
    ELSE "illust"

\* a faulty variant: the archive probe placed before the manga test
route_ugoira_first(work) ==
    IF UgoiraProbe(work) = "TypeError" THEN "TypeError"
    ELSE IF UgoiraProbe(work) = "true" THEN "ugoira"
    ELSE IF work.is_manga = "absent" THEN "AttributeError"
    ELSE IF work.is_manga = "true" THEN "manga"
    ELSE "illust"

\* The dispatch of download_work (download.py 79-89): the handler the record
\* goes to, or the exception raised on the way.  work.is_manga is an attribute
\* read; the archive probe is the one of worktype; text_length is not looked
\* at.
route(work) ==
    IF work.is_manga = "absent" THEN "AttributeError"
    ELSE IF work.is_manga = "true" THEN "manga"
    ELSE IF UgoiraProbe(work) = "TypeError" THEN "TypeError"
    ELSE IF UgoiraProbe(work) = "true" THEN "ugoira"
    ELSE "illust"

InitKindVars == info \in Infos /\ kind = "unset" /\ handler = "unset"
IdleKindVars == info = [text_length |-> "absent", is_manga |-> "false", metadata |-> "null"]
                /\ kind = "unset" /\ handler = "unset"

Classify ==
    /\ kind = "unset"
    /\ kind' = worktype(info)
    /\ UNCHANGED <<info, handler, notKind>>

\* download_work reaches its dispatch with the record
Dispatch ==
    /\ handler = "unset"
    /\ handler' = route(info)
    /\ UNCHANGED <<info, kind, notKind>>

\* a fresh record is handed to the classifier and to the downloader
NextRecord ==
    /\ kind # "unset"
    /\ handler # "unset"
    /\ info' \in Infos
    /\ kind' = "unset"
    /\ handler' = "unset"
    /\ UNCHANGED notKind

(***************************************************************************)
(* The page cursor: Response.pageiter / __iter__ (core.py 119-146)         *)
(***************************************************************************)
MaxRecords == 4
MaxPageSize == 3

Falsies == {JNull, JInt(0)}

Servers == [n : 0..MaxRecords, k : 1..MaxPageSize, falsy : Falsies]

Min(a, b) == IF a < b THEN a ELSE b

\* ceil(a / b) for b >= 1
CeilDiv(a, b) == (a + b - 1) \div b

\* The server's answer to a request for page p of a resource of s.n records
\* (numbered 1..n in the server's order) in pages of s.k: the envelope
\* {response: [...], pagination: {next: p+1 or the falsy indicator}}.
ServerPage(s, p) ==
    LET lo == (p - 1) * s.k + 1
        hi == Min(p * s.k, s.n)
    IN [response |-> [j \in 1..(IF hi >= lo THEN hi - lo + 1 ELSE 0) |-> lo + j - 1],
        pagination |-> [next |-> IF p * s.k < s.n THEN JInt(p + 1) ELSE s.falsy]]

\* The state of one iteration (itertools.chain over the pageiter generator):
\*   phase  "new"   __iter__ not yet advanced
\*          "run"   inside the generator's loop
\*          "done"  the generator returned: StopIteration
\*   p      the generator's local p (the next page to request, or falsy)
\*   page   the records of the current page not yet handed out
CursorInit == [phase |-> "new", p |-> JInt(1), page |-> <<>>]

InitPagesVars ==
    /\ server \in Servers
    /\ cursor = CursorInit
    /\ requested = <<>>
    /\ consumed = <<>>

IdlePagesVars ==
    /\ server = [n |-> 0, k |-> 1, falsy |-> JNull]
    /\ cursor = CursorInit
    /\ requested = <<>>
    /\ consumed = <<>>

\* a faulty variant: the next page is asked for while one record is left
ChainPrefetch(c) == Len(c.page) <= 1

\* chain.from_iterable asks the generator for the next page only when the
\* page it is handing out is exhausted
ChainExhausted(c) == c.page = <<>>

\* the generator's `while p:` test, reached on the first advance and on each
\* resumption after a yield
LoopContinues(c) == c.phase \in {"new", "run"} /\ Truthy(c.p)

\* a faulty variant: the new next indicator is tested before the page is yielded,
\* so the page that carries the falsy indicator is dropped
PageStepDropsLast(c, res) ==
    IF Truthy(res.pagination.next)
    THEN [phase |-> "run", p |-> res.pagination.next, page |-> res.response]
    ELSE [phase |-> "run", p |-> res.pagination.next, page |-> <<>>]

\* res = self._request_page(p); p = res.pagination.next; yield res.response
PageStep(c, res) ==
    [phase |-> "run", p |-> res.pagination.next, page |-> res.response]

\* the request of page p fails: _request raises, the generator is finished and
\* the exception reaches the consumer
PageStepRaises(c) == [phase |-> "raised", p |-> c.p, page |-> <<>>]

RequestPage ==
    /\ ChainExhausted(cursor)
    /\ LoopContinues(cursor)
    /\ requested' = Append(requested, cursor.p.v)
    /\ cursor' = PageStep(cursor, ServerPage(server, cursor.p.v))
    /\ UNCHANGED <<server, consumed, notPages>>

RequestPageRaises ==
    /\ ChainExhausted(cursor)
    /\ LoopContinues(cursor)
    /\ requested' = Append(requested, cursor.p.v)
    /\ cursor' = PageStepRaises(cursor)
    /\ UNCHANGED <<server, consumed, notPages>>

\* the chain hands the next record of the current page to the consumer
YieldRecord ==
    /\ cursor.page # <<>>
    /\ consumed' = Append(consumed, Head(cursor.page))
    /\ cursor' = [cursor EXCEPT !.page = Tail(cursor.page)]
    /\ UNCHANGED <<server, requested, notPages>>

\* `while p:` fails: the generator returns and the chain raises StopIteration
StopIteration ==
    /\ ChainExhausted(cursor)
    /\ cursor.phase \in {"new", "run"}
    /\ ~Truthy(cursor.p)
    /\ cursor' = [cursor EXCEPT !.phase = "done"]
    /\ UNCHANGED <<server, requested, consumed, notPages>>

(***************************************************************************)
(* The request pipeline and the session: PixivApi._request and             *)
(* PixivApi._authenticate (core.py 76-111), refresh (api.py 114-115)       *)
(***************************************************************************)
MaxCalls == 3

Tokens == {"t1", "t2"}
Messages == {"Invalid grant"}

\* What the server sends back, as the code sees it:
\*   status  "ok" (below 400), "http_error" (the scraper raises HTTPError) or
\*           "transport" (the scraper raises a connection error: no response)
\*   form    how the body text decodes: "not_json", "dict", "list", "number"
\*   errors  for a dict: "absent", "no_system" ({errors: {}}) or the text at
\*           errors.system.message
\*   response, access_token, refresh_token: for a dict, the response section
\*           ("absent" or "present") and the two tokens in it ("absent" or a
\*           token)
Body(form, errors, response, access, refresh) ==
    [form |-> form, errors |-> errors, response |-> response,
     access_token |-> access, refresh_token |-> refresh]

NotJsonBody == Body("not_json", "absent", "absent", "absent", "absent")

Bodies ==
    {NotJsonBody,
     Body("list", "absent", "absent", "absent", "absent"),
     Body("number", "absent", "absent", "absent", "absent"),
     Body("dict", "absent", "absent", "absent", "absent"),
     Body("dict", "no_system", "absent", "absent", "absent")}
    \cup {Body("dict", m, "absent", "absent", "absent") : m \in Messages}
    \cup {Body("dict", "absent", "present", a, r) :
            a \in Tokens \cup {"absent"}, r \in Tokens \cup {"absent"}}

Replies ==
    {[status |-> st, body |-> b] : st \in {"ok", "http_error"}, b \in Bodies}
    \cup {[status |-> "transport", body |-> NotJsonBody]}

Outcome(exc, msg, value) == [exc |-> exc, msg |-> msg, value |-> value]

\* except scrapelib.HTTPError as e: body = json.loads(e.body); 'errors' in
\* body; body['errors']['system']['message'].  json.loads is inside the
\* handler and unguarded; `in` on a number is TypeError; a missing key under
\* errors is KeyError.
HttpError(body) ==
    CASE body.form = "not_json" -> Outcome("JSONDecodeError", "none", NotJsonBody)
      [] body.form = "number" -> Outcome("TypeError", "none", NotJsonBody)
      [] body.form = "list" -> Outcome("PixivError", "none", NotJsonBody)
      [] body.errors = "absent" -> Outcome("PixivError", "none", NotJsonBody)
      [] body.errors = "no_system" -> Outcome("KeyError", "none", NotJsonBody)
      [] OTHER -> Outcome("PixivError", body.errors, NotJsonBody)

\* text = json.loads(res.text, object_hook=AttrDict) except Exception: raise
\* PixivError
Decode(body) ==
    IF body.form = "not_json" THEN Outcome("PixivError", "none", NotJsonBody)
    ELSE Outcome("none", "none", body)

\* _request: one call of the scraper and the translation of its result
request(reply) ==
    CASE reply.status = "transport" -> Outcome("ConnectionError", "none", NotJsonBody)
      [] reply.status = "http_error" -> HttpError(reply.body)
      [] reply.status = "ok" -> Decode(reply.body)

\* Credentials: "" stands for a value that is not given (None) or empty; both
\* are falsy.
Usernames == {"", "user"}
Passwords == {"", "secret"}

NoCredentialsMessage == "no password or refresh_token is set. authentication failed."

\* a faulty variant: the final else (raise) is missing and the refresh grant is used
GrantTypeNoRaise(username, password, refresh_token) ==
    IF username # "" /\ password # "" THEN "password" ELSE "refresh_token"

\* if username and password / elif refresh_token / else raise
GrantType(username, password, refresh_token) ==
    IF username # "" /\ password # "" THEN "password"
    ELSE IF refresh_token # "" THEN "refresh_token"
    ELSE "none"

Bearer(token) == <<"Bearer", token>>

\* The three assignments after the token request, in the code's order; the
\* result is the session and the exception, if one cut the sequence short.
\* token.response on a list or a number, or on a dict without the key, is
\* AttributeError, and so is a missing token.
UpdateTokens(s, token) ==
    IF token.form # "dict" \/ token.response = "absent" \/ token.access_token = "absent"
    THEN [session |-> s, exc |-> "AttributeError"]
    ELSE LET s1 == [s EXCEPT !.access_token = token.access_token]
         IN IF token.refresh_token = "absent"
            THEN [session |-> s1, exc |-> "AttributeError"]
            ELSE [session |-> [s1 EXCEPT !.refresh_token = token.refresh_token,
                                         !.authorization = Bearer(token.access_token)],
                  exc |-> "none"]

\* _authenticate as a function of the session, its arguments and the server's
\* reply: [session, calls (network calls made), exc, msg]
authenticate(s, username, password, refresh_token, reply) ==
    IF GrantType(username, password, refresh_token) = "none"
    THEN [session |-> s, calls |-> 0, exc |-> "PixivError", msg |-> NoCredentialsMessage]
    ELSE LET token == request(reply)
         IN IF token.exc # "none"
            THEN [session |-> s, calls |-> 1, exc |-> token.exc, msg |-> token.msg]
            ELSE LET u == UpdateTokens(s, token.value)
                 IN [session |-> u.session, calls |-> 1, exc |-> u.exc, msg |-> "none"]

SessionInit == [access_token |-> "unset", refresh_token |-> "unset", authorization |-> <<>>]

NoArgs == [username |-> "", password |-> "", refresh_token |-> ""]

LastInit ==
    [op |-> "none", args |-> NoArgs, reply |-> [status |-> "transport", body |-> NotJsonBody],
     pre |-> SessionInit, calls |-> 0, exc |-> "none", msg |-> "none"]

InitSessionVars ==
    /\ session = SessionInit
    /\ netcalls = 0
    /\ last = LastInit

\* an object exists once __init__ has returned, that is once its
\* _authenticate call has set the Authorization header
Constructed(s) == s.authorization # <<>>

\* PixivApi(..., username, password): _authenticate(username=username,
\* password=password) on the fresh object.  When it raises, __init__ raises and
\* there is no object: the next construction starts afresh.
Construct ==
    /\ ~Constructed(session)
    /\ \E u \in Usernames, pw \in Passwords, reply \in Replies :
        LET r == authenticate(SessionInit, u, pw, "", reply)
        IN /\ netcalls + r.calls <= MaxCalls
           /\ session' = IF r.exc = "none" THEN r.session ELSE SessionInit
           /\ netcalls' = netcalls + r.calls
           /\ last' = [op |-> "construct",
                       args |-> [username |-> u, password |-> pw, refresh_token |-> ""],
                       reply |-> reply, pre |-> SessionInit, calls |-> r.calls,
                       exc |-> r.exc, msg |-> r.msg]
           /\ UNCHANGED notSession

\* a call of _authenticate on a constructed object, with any arguments
Authenticate ==
    /\ Constructed(session)
    /\ \E u \in Usernames, pw \in Passwords, rt \in Tokens \cup {""}, reply \in Replies :
        LET r == authenticate(session, u, pw, rt, reply)
        IN /\ netcalls + r.calls <= MaxCalls
           /\ session' = r.session
           /\ netcalls' = netcalls + r.calls
           /\ last' = [op |-> "authenticate",
                       args |-> [username |-> u, password |-> pw, refresh_token |-> rt],
                       reply |-> reply, pre |-> session, calls |-> r.calls,
                       exc |-> r.exc, msg |-> r.msg]
           /\ UNCHANGED notSession

\* refresh(): _authenticate(refresh_token=self._refresh_token), on a constructed
\* object (one whose first authentication set the tokens)
Refresh ==
    /\ Constructed(session)
    /\ \E reply \in Replies :
        LET r == authenticate(session, "", "", session.refresh_token, reply)
        IN /\ netcalls + r.calls <= MaxCalls
           /\ session' = r.session
           /\ netcalls' = netcalls + r.calls
           /\ last' = [op |-> "refresh",
                       args |-> [username |-> "", password |-> "",
                                 refresh_token |-> session.refresh_token],
                       reply |-> reply, pre |-> session, calls |-> r.calls,
                       exc |-> r.exc, msg |-> r.msg]
           /\ UNCHANGED notSession

\* any endpoint's call of _request on a constructed object
Request ==
    /\ Constructed(session)
    /\ netcalls < MaxCalls
    /\ \E reply \in Replies :
        LET r == request(reply)
        IN /\ netcalls' = netcalls + 1
           /\ last' = [op |-> "request", args |-> NoArgs, reply |-> reply, pre |-> session,
                       calls |-> 1, exc |-> r.exc, msg |-> r.msg]
           /\ UNCHANGED <<session, notSession>>

(***************************************************************************)
(* The request pipelines over the scraper: PixivApi._request (core.py      *)
(* 96-111) and PixivApiBase.request (api.py 117-133), with the attempts    *)
(* the scraper makes and the cookies of api.py; the single-page and the    *)
(* paginated request built on them (core.py 113-146, api.py 144-177)       *)
(***************************************************************************)
MaxApiCalls == 3
MaxPageParam == 2

\* scrapelib.Scraper's retry_attempts: core.py builds the scraper without it
\* (the library's default, 0), api.py with retry_attempts=3
RetryAttemptsCore == 0
RetryAttemptsApi == 3

\* How one HTTP attempt ends: "ok" (a status below 400), "not_found" (404),
\* "http_error" (another status from 400 on), "transport" (no response)
AttemptStatuses == {"ok", "not_found", "http_error", "transport"}

\* The server's behaviour over the attempts of one call: the first k attempts
\* fail the same way, the others end with `final`
Fill(k, failure, final) ==
    [i \in 1..(RetryAttemptsApi + 1) |-> IF i <= k THEN failure ELSE final]

Answers ==
    {Fill(k, failure, final) : k \in 0..(RetryAttemptsApi + 1),
                               failure \in {"http_error", "transport"},
                               final \in {"ok", "not_found"}}

RECURSIVE RetryLoop404(_, _, _)
\* a faulty variant: a 404 is retried like any other failed attempt
RetryLoop404(retry_attempts, answers, tries) ==
    IF answers[tries + 1] = "ok" \/ tries + 1 > retry_attempts
    THEN [attempts |-> tries + 1, status |-> answers[tries + 1]]
    ELSE RetryLoop404(retry_attempts, answers, tries + 1)

RECURSIVE RetryLoop(_, _, _)
\* The scraper's request with retry_attempts set: `while tries <=
\* retry_attempts`: an accepted response or a 404 leaves the loop, any other
\* response or exception counts a try and is attempted again.  The result is
\* the number of attempts made and how the last one ended.
RetryLoop(retry_attempts, answers, tries) ==
    IF answers[tries + 1] \in {"ok", "not_found"} \/ tries + 1 > retry_attempts
    THEN [attempts |-> tries + 1, status |-> answers[tries + 1]]
    ELSE RetryLoop(retry_attempts, answers, tries + 1)

\* a faulty variant of the scraper's request
ScraperRequest404(retry_attempts, answers) == RetryLoop404(retry_attempts, answers, 0)

\* self._screper.request(...) / self.scraper.request(...)
ScraperRequest(retry_attempts, answers) == RetryLoop(retry_attempts, answers, 0)

\* the reply the pipeline sees: the scraper raises HTTPError for every status
\* from 400 on
Reply(status, body) ==
    [status |-> IF status = "not_found" THEN "http_error" ELSE status, body |-> body]

ApiBodies ==
    {NotJsonBody, Body("dict", "absent", "present", "absent", "absent")}
    \cup {Body("dict", m, "absent", "absent", "absent") : m \in Messages}

\* Set-Cookie as the pattern (\S+)=(\S+); reads it: the header is a run of
\* chunks separated by blanks, each name=value with or without the closing
\* semicolon (the last chunk of a header as servers send it has none)
Chunk(name, value, semi) == [name |-> name, value |-> value, semi |-> semi]
NoSetCookie == [present |-> FALSE, chunks |-> <<>>]
SetCookie(chunks) == [present |-> TRUE, chunks |-> chunks]

CookieNames == {"a", "b"}

SetCookies ==
    {NoSetCookie,
     SetCookie(<<Chunk("a", "1", TRUE), Chunk("b", "1", TRUE)>>),
     SetCookie(<<Chunk("a", "2", TRUE)>>),
     SetCookie(<<Chunk("b", "2", TRUE), Chunk("a", "3", FALSE)>>),
     SetCookie(<<Chunk("b", "1", TRUE), Chunk("b", "3", TRUE)>>),
     SetCookie(<<Chunk("a", "3", FALSE)>>)}

\* re.finditer(r'(\S+)=(\S+);', header): the chunks that end with a semicolon
FindPairs(chunks) == SelectSeq(chunks, LAMBDA c : c.semi)

RECURSIVE UpdateEach(_, _)
\* for m in ...: self.cookies.update({m.group(1): m.group(2)})
UpdateEach(jar, pairs) ==
    IF pairs = <<>> THEN jar
    ELSE UpdateEach((Head(pairs).name :> Head(pairs).value) @@ jar, Tail(pairs))

\* a faulty variant: the jar is replaced by the cookies of the response
update_cookie_replace(jar, header) ==
    IF header.present THEN UpdateEach(<<>>, FindPairs(header.chunks)) ELSE jar

\* if 'Set-Cookie' in result.headers: ...
update_cookie(jar, header) ==
    IF header.present THEN UpdateEach(jar, FindPairs(header.chunks)) ELSE jar

\* PixivApi._request through the scraper of core.py
core_request(answers, body) ==
    LET r == ScraperRequest(RetryAttemptsCore, answers)
    IN [attempts |-> r.attempts, status |-> r.status,
        exc |-> request(Reply(r.status, body)).exc]

\* PixivApiBase.request through the scraper of api.py: the jar goes out with
\* the call and is updated from a response the scraper accepted
api_request(jar, answers, body, header) ==
    LET r == ScraperRequest(RetryAttemptsApi, answers)
    IN [attempts |-> r.attempts, status |-> r.status, sent |-> jar,
        exc |-> CASE r.status = "transport" -> "ConnectionError"
                  [] r.status = "ok" -> "none"
                  [] OTHER -> HttpError(body).exc,
        cookies |-> IF r.status = "ok" THEN update_cookie(jar, header) ELSE jar]

\* The decoded envelope of a single-page endpoint: the response section is
\* absent, a list of records or one map (of nkeys keys); a pagination block
\* is there or not
Rec(id, nkeys) == [t |-> "map", id |-> id, nkeys |-> nkeys, items |-> <<>>]
JList(items) == [t |-> "list", id |-> 0, nkeys |-> 0, items |-> items]
NoSection == [t |-> "absent", id |-> 0, nkeys |-> 0, items |-> <<>>]

ResponseSections ==
    {NoSection, JList(<<>>), JList(<<Rec(1, 2)>>), JList(<<Rec(1, 2), Rec(2, 2)>>),
     Rec(3, 1), Rec(3, 2)}

Envelopes == [response : ResponseSections, pagination : BOOLEAN]

\* len(res.response)
PyLen(x) == IF x.t = "list" THEN Len(x.items) ELSE x.nkeys

\* PixivApi._request_singlepage on a decoded envelope: res.response is an
\* attribute read (AttributeError when absent); [0] on an empty list is
\* IndexError
core_singlepage(env) ==
    CASE env.response.t = "absent" -> [exc |-> "AttributeError", value |-> NoSection]
      [] env.response.t = "map" -> [exc |-> "none", value |-> env.response]
      [] env.response.items = <<>> -> [exc |-> "IndexError", value |-> NoSection]
      [] OTHER -> [exc |-> "none", value |-> env.response.items[1]]

\* PixivApiBase.request_singlepage on a decoded envelope: the two assertions,
\* then res.response[0], which on a map is a lookup of the key 0 (KeyError)
api_singlepage(env) ==
    CASE env.pagination -> [exc |-> "AssertionError", value |-> NoSection]
      [] env.response.t = "absent" -> [exc |-> "AttributeError", value |-> NoSection]
      [] PyLen(env.response) # 1 -> [exc |-> "AssertionError", value |-> NoSection]
      [] env.response.t = "map" -> [exc |-> "KeyError", value |-> NoSection]
      [] OTHER -> [exc |-> "none", value |-> env.response.items[1]]

\* params['page'] of a paginated endpoint: None when the caller leaves it out
PageParams == {JNull} \cup {JInt(p) : p \in 0..MaxPageParam}

\* the servers the paginated request is tried against
PagedServers == {s \in Servers : s.n = MaxRecords /\ s.falsy = JNull}

\* _request_multipages up to its return: `if params['page']` fetches that page
\* and returns its response section; otherwise a Response object is returned
\* and nothing has been requested
multipages(page, s) ==
    IF Truthy(page)
    THEN [fetches |-> 1, value |-> JList(ServerPage(s, page.v).response), lazy |-> FALSE]
    ELSE [fetches |-> 0, value |-> NoSection, lazy |-> TRUE]

CallInit ==
    [op |-> "none", n |-> 0, answers |-> Fill(0, "transport", "ok"), attempts |-> 0,
     status |-> "ok", exc |-> "none", header |-> NoSetCookie, sent |-> <<>>, seen |-> 0,
     env |-> [response |-> NoSection, pagination |-> FALSE], page |-> JNull,
     paged |-> [n |-> 0, k |-> 1, falsy |-> JNull], value |-> NoSection,
     fetches |-> 0, lazy |-> FALSE]

InitApiVars ==
    /\ cookies = <<>>
    /\ setcookies = <<>>
    /\ call = CallInit

\* any endpoint's call of _request of core.py
CoreRequest ==
    \E answers \in Answers, body \in ApiBodies :
        LET r == core_request(answers, body)
        IN /\ call.n < MaxApiCalls
           /\ call' = [CallInit EXCEPT !.op = "core_request", !.n = call.n + 1,
                                       !.answers = answers, !.attempts = r.attempts,
                                       !.status = r.status, !.exc = r.exc]
           /\ UNCHANGED <<cookies, setcookies, notApi>>

\* any call of request of api.py
ApiRequest ==
    \E answers \in Answers, body \in ApiBodies, header \in SetCookies :
        LET r == api_request(cookies, answers, body, header)
        IN /\ call.n < MaxApiCalls
           /\ cookies' = r.cookies
           /\ setcookies' = IF r.status = "ok" THEN Append(setcookies, header)
                            ELSE setcookies
           /\ call' = [CallInit EXCEPT !.op = "api_request", !.n = call.n + 1,
                                       !.answers = answers, !.attempts = r.attempts,
                                       !.status = r.status, !.exc = r.exc,
                                       !.header = header, !.sent = r.sent,
                                       !.seen = Len(setcookies)]
           /\ UNCHANGED notApi

\* _request_singlepage (core.py) or request_singlepage (api.py) on the envelope
\* its request returned
SinglePage ==
    \E impl \in {"core", "api"}, env \in Envelopes :
        LET r == IF impl = "core" THEN core_singlepage(env) ELSE api_singlepage(env)
        IN /\ call.n < MaxApiCalls
           /\ call' = [CallInit EXCEPT !.op = impl \o "_singlepage", !.n = call.n + 1,
                                       !.env = env, !.exc = r.exc, !.value = r.value]
           /\ UNCHANGED <<cookies, setcookies, notApi>>

\* _request_multipages with the page parameter given or left out
MultiPages ==
    \E page \in PageParams, s \in PagedServers :
        LET r == multipages(page, s)
        IN /\ call.n < MaxApiCalls
           /\ call' = [CallInit EXCEPT !.op = "multipages", !.n = call.n + 1,
                                       !.page = page, !.paged = s, !.value = r.value,
                                       !.fetches = r.fetches, !.lazy = r.lazy]
           /\ UNCHANGED <<cookies, setcookies, notApi>>

(***************************************************************************)
(* The downloader (download.py)                                            *)
(*                                                                         *)
(* The Downloader's methods are sequential code over the local tree and    *)
(* the network.  Each is an operator from a world to a world:              *)
(*   fs      the local tree                                                *)
(*   now     the clock                                                     *)
(*   log     what the call did so far, in order (requests, writes, calls)  *)
(*   exc     "none", or the exception that is propagating: every later     *)
(*           statement is then skipped                                     *)
(*   calls   network calls made so far in this run                         *)
(*   failAt  the network call of this run that fails (0: none does)        *)
(*   writes  payload files opened for writing so far in this run           *)
(*   crashAt the payload write of this run during which the process dies   *)
(*           (0: none)                                                     *)
(*   remote  the server's catalogue                                        *)
(***************************************************************************)
MaxPages == 2
MaxNow == 61
MaxFail == 3
MaxRuns == 2

\* uploaded_time strings, 'YYYY-mm-dd HH:MM:SS' cut down to <<MM, SS>>
TimeStrings == {<<0, 59>>, <<1, 0>>, <<1, 1>>}
\* uploaded_time is None
NoTime == <<>>

\* datetime.strptime(uploaded_time, '%Y-%m-%d %H:%M:%S')
datetime(uploaded_time) == [minute |-> uploaded_time[1], second |-> uploaded_time[2]]
\* datetime.timestamp(): local time to seconds since the epoch
Timestamp(dt) == dt.minute * 60 + dt.second
\* datetime.timetuple() and time.mktime(): local time to seconds since the epoch
Timetuple(dt) == <<dt.minute, dt.second>>
Mktime(tt) == tt[1] * 60 + tt[2]

Event(ev, what) == [ev |-> ev, what |-> what]
Log(w, ev, what) == [w EXCEPT !.log = Append(@, Event(ev, what))]
Raise(w, exc) == [w EXCEPT !.exc = exc]

\* One network call: it is counted, logged, and fails if the run's fault
\* falls on it.
Network(w, ev, what, exc) ==
    LET w1 == Log([w EXCEPT !.calls = @ + 1], ev, what)
    IN IF w1.calls = w.failAt THEN Raise(w1, exc) ELSE w1

Exists(w, path) == path \in DOMAIN w.fs

\* a faulty variant: utime(path, None): the modification time is the time of the write
utime_now(w, path, uploaded_time) ==
    [w EXCEPT !.fs = (path :> [w.fs[path] EXCEPT !.mtime = w.now]) @@ w.fs]

\* _utime: os.utime(path, (now, _datetime(uploaded_time).timestamp())), or
\* os.utime(path, None) without a timestamp
utime(w, path, uploaded_time) ==
    IF uploaded_time = NoTime
    THEN [w EXCEPT !.fs = (path :> [w.fs[path] EXCEPT !.mtime = w.now]) @@ w.fs]
    ELSE [w EXCEPT !.fs = (path :> [w.fs[path] EXCEPT
                                      !.mtime = Timestamp(datetime(uploaded_time))]) @@ w.fs]

\* a faulty variant: a strict comparison, equal timestamps count as stale
is_skippable_strict(w, fname, uploaded_time) ==
    IF uploaded_time = NoTime \/ ~Exists(w, fname) THEN FALSE
    ELSE Mktime(Timetuple(datetime(uploaded_time))) < w.fs[fname].mtime

\* _is_skippable
is_skippable(w, fname, uploaded_time) ==
    IF uploaded_time = NoTime \/ ~Exists(w, fname) THEN FALSE
    ELSE Mktime(Timetuple(datetime(uploaded_time))) <= w.fs[fname].mtime

\* open(out, 'w'/'wb') and write: the file holds data and is stamped now
WriteFile(w, out, data) ==
    [w EXCEPT !.fs = (out :> [mtime |-> w.now, data |-> data]) @@ w.fs]

\* what the server serves at url: the bytes change when the work is reuploaded
Payload(w, url) ==
    [url |-> url, whole |-> TRUE,
     rev |-> IF url.id \in DOMAIN w.remote.works
             THEN w.remote.works[url.id].reuploaded_time ELSE NoTime]

\* a faulty variant: the bytes go to a temporary file that is renamed at the end,
\* so a crash leaves the target as it was
crash_keeps_target(w, url, out) == Raise(Log(w, "crash", out), "crash")

\* The process dies inside `with ... open(out, 'wb') as fo: fo.write(fi.read())`:
\* the target has been opened (created or truncated) and holds a part of the
\* bytes, stamped with the time of the write; _utime is never reached.
crash_in_write(w, url, out) ==
    Raise(Log(WriteFile(w, out, [Payload(w, url) EXCEPT !.whole = FALSE]), "crash", out),
          "crash")

\* _download_raw.  The entry event records what the staleness test looked at;
\* "skip" is the return of False, "download" the return of True.
download_raw(w, url, out, reuploaded_time) ==
    IF w.exc # "none" THEN w
    ELSE LET w0 == Log(w, "download_raw",
                       [url |-> url, out |-> out, time |-> reuploaded_time,
                        existed |-> Exists(w, out),
                        mtime |-> IF Exists(w, out) THEN w.fs[out].mtime ELSE 0])
         IN IF is_skippable(w0, out, reuploaded_time)
            THEN Log(w0, "skip", out)
            ELSE LET w1 == Network(w0, "urlretrieve", url, "HTTPError")
                     w2 == [w1 EXCEPT !.writes = @ + 1]
                 IN IF w1.exc # "none" THEN w1
                    ELSE IF w2.writes = w2.crashAt THEN crash_in_write(w2, url, out)
                    ELSE Log(utime(WriteFile(w2, out, Payload(w2, url)), out, reuploaded_time),
                             "download", out)

\* a faulty variant: an existing file is kept
save_json_keeps(w, data, out) ==
    IF w.exc # "none" \/ Exists(w, out) THEN w
    ELSE Log(WriteFile(w, out, data), "save_json", out)

\* _save_json
save_json(w, data, out) ==
    IF w.exc # "none" THEN w
    ELSE Log(WriteFile(w, out, data), "save_json", out)

\* the output paths: 'users/{:09d}/<dir>/{:012d}<suffix>.<ext>'
Path(user, dir, id, suffix, ext) ==
    [user |-> user, dir |-> dir, id |-> id, suffix |-> suffix, ext |-> ext]
illust_outpath(work, ext) == Path(work.user, "works", work.id, "", ext)
manga_outpath(work, page, ext) == Path(work.user, "works", work.id, "_000" \o ToString(page), ext)
ugoira_outpath(work, ext) == Path(work.user, "works", work.id, "", ext)
novel_outpath(novel, ext) == Path(novel.user, "novels", novel.id, "", ext)
work_info_outpath(work, ext) == Path(work.user, "works", work.id, "_info", ext)
novel_info_outpath(novel, ext) == Path(novel.user, "novels", novel.id, "_info", ext)
work_comments_outpath(work, ext) == Path(work.user, "works", work.id, "_comments", ext)
novel_comments_outpath(novel, ext) == Path(novel.user, "novels", novel.id, "_comments", ext)
\* 'users/{:09d}/info.{}' and 'users/{:09d}/image.{}': no directory, no id
user_info_outpath(user, ext) == Path(user.id, "", 0, "info", ext)
user_image_outpath(user, ext) == Path(user.id, "", 0, "image", ext)

\* a URL, by the parts the code looks at; _ext is the text after the last dot
Url(id, name, ext) == [id |-> id, name |-> name, ext |-> ext]
ext_of(url) == url.ext

(* The catalogue.  A work record, as api.works decodes it:                 *)
(*   id, user, reuploaded_time                                             *)
(*   text_length, is_manga, metadata   as for worktype                     *)
(*   npages     the length of the page list, when metadata holds one       *)
(*   ncomments  the number of comments the server holds for it             *)
WorkIds == {1, 2}
NovelIds == {5}
\* the server's page size for comment lists
CommentsPageSize == 2

Work(id, shape, time, ncomments) ==
    [id |-> id, user |-> 7, text_length |-> "absent",
     is_manga |-> shape.is_manga, metadata |-> shape.metadata, npages |-> shape.npages,
     reuploaded_time |-> time, ncomments |-> ncomments]

Shape(is_manga, metadata, npages) ==
    [is_manga |-> is_manga, metadata |-> metadata, npages |-> npages]

IllustShape == Shape("false", "null", 0)
UgoiraShape == Shape("false", "zip_ugoira", 0)
\* a manga whose page list is under the key the downloader reads
MangaShapes == {Shape("true", "pageiter", n) : n \in 0..MaxPages}
\* a manga whose page list is under the key `pages`
MangaPagesShape == Shape("true", "pages", 1)
WorkShapes == {IllustShape, UgoiraShape, MangaPagesShape} \cup MangaShapes

\* novel text, as the pieces the marker pattern tells apart
Marker(digits) == [t |-> "marker", digits |-> digits]
\* [pixivimage:<id>-<page>]: not matched by \[pixivimage:(\d+)\]
PagedMarker(digits) == [t |-> "paged_marker", digits |-> digits]
Plain == [t |-> "text", digits |-> <<>>]

Texts ==
    {<<Marker(<<1>>), Plain, Marker(<<2>>)>>,
     <<Marker(<<2>>), PagedMarker(<<1>>), Marker(<<>>), Marker(<<0, 1>>), Marker(<<3>>),
       Marker(<<1>>)>>,
     <<Plain, Marker(<<1>>), Marker(<<1>>)>>}

Novel(id, time, text) ==
    [id |-> id, user |-> 7, text_length |-> "120", reuploaded_time |-> time,
     text |-> text, ncomments |-> 1]

RECURSIVE ParseInt(_)
\* int(work_id) on a string of decimal digits
ParseInt(digits) ==
    IF digits = <<>> THEN 0
    ELSE 10 * ParseInt(SubSeq(digits, 1, Len(digits) - 1)) + digits[Len(digits)]

RECURSIVE FindMarkers(_)
\* (m.group(1) for m in re.finditer(r'\[pixivimage:(\d+)\]', text)): the digit
\* strings of the markers, left to right
FindMarkers(text) ==
    IF text = <<>> THEN <<>>
    ELSE IF Head(text).t = "marker" /\ Head(text).digits # <<>>
         THEN <<Head(text).digits>> \o FindMarkers(Tail(text))
         ELSE FindMarkers(Tail(text))

\* _request_singlepage for a record of the catalogue: one request; an id the
\* server does not know is an HTTP error, which _request turns into PixivError
api_record(w, what, table, id) ==
    LET w1 == Network(w, "api", <<what, id>>, "PixivError")
    IN IF w1.exc # "none" THEN w1
       ELSE IF id \notin DOMAIN table THEN Raise(w1, "PixivError")
       ELSE w1

RECURSIVE Drain(_, _, _, _, _)
\* tuple(cursor): the iteration of the page cursor run to its end; the result
\* is the world and the records
Drain(w, s, c, items, what) ==
    IF w.exc # "none" THEN [w |-> w, items |-> items]
    ELSE IF ~ChainExhausted(c)
    THEN Drain(w, s, [c EXCEPT !.page = Tail(c.page)], Append(items, Head(c.page)), what)
    ELSE IF LoopContinues(c)
    THEN LET w1 == Network(w, "page", <<what, c.p.v>>, "PixivError")
         IN IF w1.exc # "none" THEN [w |-> w1, items |-> items]
            ELSE Drain(w1, s, PageStep(c, ServerPage(s, c.p.v)), items, what)
    ELSE [w |-> w, items |-> items]

CommentServer(rec) == [n |-> rec.ncomments, k |-> CommentsPageSize, falsy |-> JNull]

download_illust(w, work) ==
    LET url == Url(work.id, "large", "jpg")
    IN download_raw(w, url, illust_outpath(work, ext_of(url)), work.reuploaded_time)

RECURSIVE download_pages(_, _, _)
\* the loop of _download_manga from page index i on
download_pages(w, work, i) ==
    IF w.exc # "none" \/ i >= work.npages THEN w
    ELSE LET url == Url(work.id, "p" \o ToString(i), "png")
         IN download_pages(download_raw(w, url, manga_outpath(work, i, ext_of(url)),
                                        work.reuploaded_time),
                           work, i + 1)

\* _download_manga: work.metadata.pageiter is an attribute read on the decoded
\* metadata: AttributeError when metadata is null or has no such key
download_manga(w, work) ==
    IF work.metadata # "pageiter" THEN Raise(w, "AttributeError")
    ELSE download_pages(w, work, 0)

download_ugoira(w, work) ==
    LET url == Url(work.id, "ugoira600x600", "zip")
    IN download_raw(w, url, ugoira_outpath(work, ext_of(url)), work.reuploaded_time)

\* the dispatch of download_work (download.py 79-89)
dispatch(w, work) ==
    IF w.exc # "none" THEN w
    ELSE CASE route(work) = "manga" -> download_manga(w, work)
           [] route(work) = "ugoira" -> download_ugoira(w, work)
           [] route(work) = "illust" -> download_illust(w, work)
           [] OTHER -> Raise(w, route(work))

\* download_work; work_id is an int or a string of digits
\* a faulty variant: a failed comment request is swallowed and the work is
\* downloaded with the comments read so far
download_work_resilient(w, work_id) ==
    IF w.exc # "none" THEN w
    ELSE LET id == ParseInt(work_id)
             w1 == api_record(Log(w, "download_work", id), "works", w.remote.works, id)
         IN IF w1.exc # "none" THEN w1
            ELSE LET work == w.remote.works[id]
                     w2 == save_json(w1, work, work_info_outpath(work, "json"))
                     d == Drain(w2, CommentServer(work), CursorInit, <<>>,
                                <<"works_comments", id>>)
                     w3 == save_json([d.w EXCEPT !.exc = "none"], d.items,
                                     work_comments_outpath(work, "json"))
                     w4 == dispatch(w3, work)
                 IN IF w4.exc # "none" THEN w4 ELSE Log(w4, "download_work_end", id)

download_work(w, work_id) ==
    IF w.exc # "none" THEN w
    ELSE LET id == ParseInt(work_id)
             w1 == api_record(Log(w, "download_work", id), "works", w.remote.works, id)
         IN IF w1.exc # "none" THEN w1
            ELSE LET work == w.remote.works[id]
                     w2 == save_json(w1, work, work_info_outpath(work, "json"))
                     d == Drain(w2, CommentServer(work), CursorInit, <<>>,
                                <<"works_comments", id>>)
                     w3 == save_json(d.w, d.items, work_comments_outpath(work, "json"))
                     w4 == dispatch(w3, work)
                 IN IF w4.exc # "none" THEN w4 ELSE Log(w4, "download_work_end", id)

RECURSIVE download_each_reversed(_, _)
\* a faulty variant: the markers are worked through from the last to the first
download_each_reversed(w, ids) ==
    IF w.exc # "none" \/ ids = <<>> THEN w
    ELSE download_each_reversed(download_work(w, ids[Len(ids)]), SubSeq(ids, 1, Len(ids) - 1))

RECURSIVE download_each_once(_, _)
\* a faulty variant: an identifier that a later marker names again is left to
\* that marker
download_each_once(w, ids) ==
    IF w.exc # "none" \/ ids = <<>> THEN w
    ELSE IF \E k \in 2..Len(ids) : ids[k] = Head(ids)
    THEN download_each_once(w, Tail(ids))
    ELSE download_each_once(download_work(w, Head(ids)), Tail(ids))

RECURSIVE download_each(_, _)
\* for work_id in (...): self.download_work(work_id)
download_each(w, ids) ==
    IF w.exc # "none" \/ ids = <<>> THEN w
    ELSE download_each(download_work(w, Head(ids)), Tail(ids))

\* download_novel
download_novel(w, novel_id) ==
    LET w1 == api_record(Log(w, "download_novel", novel_id), "novels", w.remote.novels,
                         novel_id)
    IN IF w1.exc # "none" THEN w1
       ELSE LET novel == w.remote.novels[novel_id]
                w2 == save_json(w1, novel, novel_info_outpath(novel, "json"))
                d == Drain(w2, CommentServer(novel), CursorInit, <<>>,
                           <<"novels_comments", novel_id>>)
                w3 == save_json(d.w, d.items, novel_comments_outpath(novel, "json"))
                w4 == IF w3.exc # "none" THEN w3
                      ELSE Network(w3, "html", novel_id, "OSError")
                out == novel_outpath(novel, "txt")
                w5 == IF w4.exc # "none" THEN w4
                      ELSE Log(utime(WriteFile(w4, out, novel.text), out,
                                     novel.reuploaded_time),
                               "write_text", out)
            IN download_each(w5, FindMarkers(novel.text))

(* The user's catalogue (download.py 128-150).  The records of users_works   *)
(* and users_novels are the user's work and novel ids in the server's order,  *)
(* served in pages of CatalogPageSize.                                        *)
CatalogPageSize == 1

UserIds == {7}
User(id) == [id |-> id]

CatalogServer(ids) == [n |-> Len(ids), k |-> CatalogPageSize, falsy |-> JNull]

\* PixivApi.users (core.py 188-201) hands _request_multipages a params dict
\* that has no 'page' key; _request_multipages starts with `if params['page']:`
\* (core.py 120), which raises KeyError before any request is made.
api_users(w, user_id) == Raise(Log(w, "users", user_id), "KeyError")

\* _download_user_image: no timestamp is passed, so nothing is ever skipped
download_user_image(w, user) ==
    LET url == Url(user.id, "px_170x170", "png")
    IN download_raw(w, url, user_image_outpath(user, ext_of(url)), NoTime)

\* _download_user_info
download_user_info(w, user_id) ==
    IF w.exc # "none" THEN w
    ELSE LET w1 == api_users(w, user_id)
         IN IF w1.exc # "none" THEN w1
            ELSE LET user == w.remote.users[user_id]
                 IN save_json(download_user_image(w1, user), user,
                              user_info_outpath(user, "json"))

RECURSIVE for_each(_, _, _, _, _)
\* for work in self.api.users_works(user_id): self.download_work(work.id), and
\* the same loop over users_novels: the cursor is advanced by the loop, a page
\* is requested when the loop asks for a record and the page in hand is
\* used up.  "item" marks the start of one pass of the loop body, with the
\* tree as it is then.
for_each(w, what, ids, c, user_id) ==
    IF w.exc # "none" THEN w
    ELSE IF ~ChainExhausted(c)
    THEN LET id == ids[Head(c.page)]
             w1 == Log(w, "item", [what |-> what, id |-> id, fs |-> w.fs])
             w2 == IF what = "works" THEN download_work(w1, <<id>>)
                   ELSE download_novel(w1, id)
         IN for_each(w2, what, ids, [c EXCEPT !.page = Tail(c.page)], user_id)
    ELSE IF LoopContinues(c)
    THEN LET w1 == Network(w, "page", <<<<"users_" \o what, user_id>>, c.p.v>>, "PixivError")
         IN IF w1.exc # "none" THEN w1
            ELSE for_each(w1, what, ids,
                          PageStep(c, ServerPage(CatalogServer(ids), c.p.v)), user_id)
    ELSE w

download_user_works(w, user_id) ==
    for_each(download_user_info(w, user_id), "works", w.remote.user_works, CursorInit,
             user_id)

download_user_novels(w, user_id) ==
    for_each(download_user_info(w, user_id), "novels", w.remote.user_novels, CursorInit,
             user_id)

download_user_all(w, user_id) ==
    download_user_novels(download_user_works(w, user_id), user_id)

(* The actions of the downloader                                           *)
World(failAt) ==
    [fs |-> fs, now |-> now, log |-> <<>>, exc |-> "none", calls |-> 0,
     failAt |-> failAt, writes |-> 0, crashAt |-> 0, remote |-> remote]

\* fault: the network call of the run that failed (0 when none did)
RunRecord(op, id, w0, w) ==
    [op |-> op, id |-> id, fs0 |-> w0.fs, remote0 |-> w0.remote, now0 |-> w0.now,
     log |-> w.log, exc |-> w.exc,
     fault |-> IF w.failAt # 0 /\ w.calls >= w.failAt THEN w.failAt ELSE 0]

NoRun ==
    [op |-> "none", id |-> 0, fs0 |-> <<>>, remote0 |-> <<>>, now0 |-> 0, log |-> <<>>,
     exc |-> "none", fault |-> 0]

InitDownloadVars ==
    /\ \E s1 \in WorkShapes, text \in Texts :
         remote = [works |-> (1 :> Work(1, s1, <<0, 59>>, 0))
                             @@ (2 :> Work(2, IllustShape, <<1, 0>>, 3)),
                   novels |-> (5 :> Novel(5, <<1, 0>>, text))]
    /\ fs = <<>>
    /\ now = Timestamp(datetime(<<0, 59>>))
    /\ run = NoRun
    /\ prev = NoRun
    /\ nruns = 0

\* the catalogues of user 7 as users_works and users_novels list them: works
\* 1 and 2 and novel 5, with or without an entry (work 3, novel 6) whose
\* record the server does not serve
UserWorkLists == {<<1, 2>>, <<1, 3, 2>>}
UserNovelLists == {<<5>>, <<6, 5>>}

InitUserVars ==
    /\ \E s1 \in WorkShapes, text \in Texts, user_works \in UserWorkLists,
          user_novels \in UserNovelLists :
         remote = [works |-> (1 :> Work(1, s1, <<0, 59>>, 0))
                             @@ (2 :> Work(2, IllustShape, <<1, 0>>, 3)),
                   novels |-> (5 :> Novel(5, <<1, 0>>, text)),
                   users |-> (7 :> User(7)),
                   user_works |-> user_works,
                   user_novels |-> user_novels]
    /\ fs = <<>>
    /\ now = Timestamp(datetime(<<0, 59>>))
    /\ run = NoRun
    /\ prev = NoRun
    /\ nruns = 0

IdleDownloadVars ==
    /\ remote = [works |-> <<>>, novels |-> <<>>]
    /\ fs = <<>>
    /\ now = 0
    /\ run = NoRun
    /\ prev = NoRun
    /\ nruns = 0

DownloadWork ==
    \E id \in WorkIds, failAt \in 0..MaxFail :
        LET w0 == World(failAt)
            w == download_work(w0, <<id>>)
        IN /\ nruns < MaxRuns
           /\ nruns' = nruns + 1
           /\ fs' = w.fs
           /\ run' = RunRecord("download_work", id, w0, w)
           /\ prev' = run
           /\ UNCHANGED <<remote, now, notDownload>>

DownloadNovel ==
    \E id \in NovelIds, failAt \in 0..MaxFail :
        LET w0 == World(failAt)
            w == download_novel(w0, id)
        IN /\ nruns < MaxRuns
           /\ nruns' = nruns + 1
           /\ fs' = w.fs
           /\ run' = RunRecord("download_novel", id, w0, w)
           /\ prev' = run
           /\ UNCHANGED <<remote, now, notDownload>>

\* download_work in a process that dies during its crashAt-th payload write
\* (when the call writes fewer payloads it returns as usual)
DownloadWorkCrash ==
    \E id \in WorkIds, crashAt \in 1..MaxPages :
        LET w0 == [World(0) EXCEPT !.crashAt = crashAt]
            w == download_work(w0, <<id>>)
        IN /\ nruns < MaxRuns
           /\ nruns' = nruns + 1
           /\ fs' = w.fs
           /\ run' = RunRecord("download_work", id, w0, w)
           /\ prev' = run
           /\ UNCHANGED <<remote, now, notDownload>>

DownloadUserWorks ==
    \E id \in UserIds :
        LET w0 == World(0)
            w == download_user_works(w0, id)
        IN /\ nruns < MaxRuns
           /\ nruns' = nruns + 1
           /\ fs' = w.fs
           /\ run' = RunRecord("download_user_works", id, w0, w)
           /\ prev' = run
           /\ UNCHANGED <<remote, now, notDownload>>

DownloadUserNovels ==
    \E id \in UserIds :
        LET w0 == World(0)
            w == download_user_novels(w0, id)
        IN /\ nruns < MaxRuns
           /\ nruns' = nruns + 1
           /\ fs' = w.fs
           /\ run' = RunRecord("download_user_novels", id, w0, w)
           /\ prev' = run
           /\ UNCHANGED <<remote, now, notDownload>>

DownloadUserAll ==
    \E id \in UserIds :
        LET w0 == World(0)
            w == download_user_all(w0, id)
        IN /\ nruns < MaxRuns
           /\ nruns' = nruns + 1
           /\ fs' = w.fs
           /\ run' = RunRecord("download_user_all", id, w0, w)
           /\ prev' = run
           /\ UNCHANGED <<remote, now, notDownload>>

\* time passes (while there is a call left to see it)
Tick ==
    /\ nruns < MaxRuns
    /\ now < MaxNow
    /\ now' = now + 1
    /\ UNCHANGED <<remote, fs, run, prev, nruns, notDownload>>

\* the author reuploads a work: its reuploaded_time moves forward
Reupload ==
    \E id \in {1}, t \in TimeStrings :
        /\ nruns < MaxRuns
        /\ Timestamp(datetime(t)) > Timestamp(datetime(remote.works[id].reuploaded_time))
        /\ remote' = [remote EXCEPT !.works[id].reuploaded_time = t]
        /\ UNCHANGED <<fs, now, run, prev, nruns, notDownload>>

InitKind == InitKindVars /\ IdlePagesVars /\ InitSessionVars /\ IdleDownloadVars
            /\ InitApiVars
NextKind == Classify \/ Dispatch \/ NextRecord
SpecKind == InitKind /\ [][NextKind]_vars

InitPages == InitPagesVars /\ IdleKindVars /\ InitSessionVars /\ IdleDownloadVars
             /\ InitApiVars
NextPages == RequestPage \/ RequestPageRaises \/ YieldRecord \/ StopIteration
SpecPages == InitPages /\ [][NextPages]_vars

InitSession == InitSessionVars /\ IdleKindVars /\ IdlePagesVars /\ IdleDownloadVars
               /\ InitApiVars
NextSession == Construct \/ Authenticate \/ Refresh \/ Request
SpecSession == InitSession /\ [][NextSession]_vars

InitDownload == InitDownloadVars /\ IdleKindVars /\ IdlePagesVars /\ InitSessionVars
                /\ InitApiVars
NextDownload == DownloadWork \/ DownloadNovel \/ DownloadWorkCrash \/ Tick \/ Reupload
SpecDownload == InitDownload /\ [][NextDownload]_vars

InitUser == InitUserVars /\ IdleKindVars /\ IdlePagesVars /\ InitSessionVars
            /\ InitApiVars
NextUser == DownloadUserWorks \/ DownloadUserNovels \/ DownloadUserAll \/ Tick
SpecUser == InitUser /\ [][NextUser]_vars

InitApi == InitApiVars /\ IdleKindVars /\ IdlePagesVars /\ InitSessionVars
           /\ IdleDownloadVars
NextApi == CoreRequest \/ ApiRequest \/ SinglePage \/ MultiPages
SpecApi == InitApi /\ [][NextApi]_vars

(***************************************************************************)
(* Claims                                                                  *)
(***************************************************************************)
HasArchiveEntry(i) == i.metadata = "zip_ugoira"

\* C6 as stated: text_length present gives NOVEL; else a true manga flag gives
\* MANGA; else (no true manga flag, the field absent included) an archive
\* entry gives UGOIRA; a record with none of the three is ILLUST.
C6_Original ==
    kind # "unset" =>
        /\ (info.text_length # "absent" => kind = "novel")
        /\ (info.text_length = "absent" /\ info.is_manga = "true" => kind = "manga")
        /\ (info.text_length = "absent" /\ info.is_manga # "true" /\ HasArchiveEntry(info)
              => kind = "ugoira")
        /\ (info.text_length = "absent" /\ info.is_manga # "true" /\ ~HasArchiveEntry(info)
              => kind = "illust")

\* C6 (amended): the ordered rule holds for every record on which the probes
\* succeed: text_length present gives NOVEL whatever else the record holds;
\* else is_manga present and true gives MANGA; else is_manga present and
\* false with an archive entry gives UGOIRA, and without one (metadata absent,
\* null, or without zip_urls, or zip_urls a map without the entry) ILLUST.
\* A record with neither text_length nor is_manga is not classified:
\* worktype raises AttributeError; zip_urls: null raises TypeError.
C6_Kind ==
    kind # "unset" =>
        /\ (info.text_length # "absent" => kind = "novel")
        /\ (info.text_length = "absent" /\ info.is_manga = "true" => kind = "manga")
        /\ (info.text_length = "absent" /\ info.is_manga = "false" /\ HasArchiveEntry(info)
              => kind = "ugoira")
        /\ (info.text_length = "absent" /\ info.is_manga = "false"
              /\ info.metadata \in {"absent", "null", "pages", "pageiter", "zip_other"}
              => kind = "illust")
        /\ (info.text_length = "absent" /\ info.is_manga = "absent"
              => kind = "AttributeError")
        /\ (info.text_length = "absent" /\ info.is_manga = "false"
              /\ info.metadata = "zip_null"
              => kind = "TypeError")

\* a record that satisfies all three tests at once is classified NOVEL
C6_Witness ==
    /\ kind = "novel"
    /\ info.text_length = "0"
    /\ info.is_manga = "true"
    /\ info.metadata = "zip_ugoira"

NothingGiven(a) == ~(a.username # "" /\ a.password # "") /\ a.refresh_token = ""

\* C7: an _authenticate call given neither a (username, password) pair nor a
\* refresh token raises PixivError with the no-credentials message, makes no
\* network call, and leaves the tokens and the Authorization header as they
\* were.
C7_NoCredentials ==
    (last.op \in {"construct", "authenticate"} /\ NothingGiven(last.args)) =>
        /\ last.exc = "PixivError"
        /\ last.msg = NoCredentialsMessage
        /\ last.calls = 0
        /\ session = last.pre

\* the attempt is made on a session that already holds tokens, with a
\* username but no password
C7_Witness ==
    /\ last.op = "authenticate"
    /\ NothingGiven(last.args)
    /\ last.args.username = "user"
    /\ last.pre.access_token \in Tokens
    /\ last.exc = "PixivError"
    /\ netcalls > 0

\* C9 as stated: after an authenticate or refresh attempt either the access
\* token, the refresh token and the Authorization header all reflect the
\* newly issued pair, or (the attempt failed) all three are what they were
\* before the attempt.
C9_AtomicTokenPair ==
    last.op \in {"construct", "authenticate", "refresh"} =>
        IF last.exc = "none"
        THEN /\ session.access_token = last.reply.body.access_token
             /\ session.refresh_token = last.reply.body.refresh_token
             /\ session.authorization = Bearer(last.reply.body.access_token)
        ELSE session = last.pre

\* C10 as stated: a response with an HTTP error status always reaches the
\* caller of _request as PixivError: with the nested system message when the
\* body is JSON with an errors field, without a message when the body is not
\* JSON or has no errors field.
C10_ErrorTranslation ==
    (last.op = "request" /\ last.reply.status = "http_error") =>
        /\ last.exc = "PixivError"
        /\ (last.reply.body.form = "dict" /\ last.reply.body.errors \in Messages
              => last.msg = last.reply.body.errors)
        /\ (last.reply.body.form # "dict" \/ last.reply.body.errors = "absent"
              => last.msg = "none")

\* seconds since the epoch of an uploaded_time string
RemoteSeconds(t) == t[1] * 60 + t[2]

\* the positions of the events of one kind in a log
Positions(log, ev) == {i \in 1..Len(log) : log[i].ev = ev}

\* C1: every _download_raw call for a target with a remote timestamp skips
\* (no network call, the next thing logged is the skip) exactly when the file
\* existed and the remote timestamp was not after its modification time;
\* otherwise its next step is the request for the bytes.
C1_SkipRule ==
    \A i \in Positions(run.log, "download_raw") :
        LET e == run.log[i].what
        IN e.time # NoTime =>
            /\ i < Len(run.log)
            /\ IF e.existed /\ RemoteSeconds(e.time) <= e.mtime
               THEN run.log[i + 1] = Event("skip", e.out)
               ELSE run.log[i + 1] = Event("urlretrieve", e.url)

\* one run in which a file stamped T is fetched again for remote time T + 1
\* and then skipped for remote time equal to its new stamp
C1_Witness ==
    \E i, j \in Positions(run.log, "download_raw") :
        /\ i < j
        /\ run.log[i].what.existed
        /\ RemoteSeconds(run.log[i].what.time) = run.log[i].what.mtime + 1
        /\ run.log[i + 1].ev = "urlretrieve"
        /\ run.log[j].what.existed
        /\ RemoteSeconds(run.log[j].what.time) = run.log[j].what.mtime
        /\ run.log[j + 1].ev = "skip"

\* the number of payloads a work has
NPayloads(work) == IF work.is_manga = "true" THEN work.npages ELSE 1

Refreshed(r, work) ==
    /\ Event("api", <<"works", work.id>>) \in {r.log[i] : i \in 1..Len(r.log)}
    /\ Positions(r.log, "page") # {}
    /\ Event("save_json", work_info_outpath(work, "json")) \in {r.log[i] : i \in 1..Len(r.log)}
    /\ Event("save_json", work_comments_outpath(work, "json"))
         \in {r.log[i] : i \in 1..Len(r.log)}

TwoRuns ==
    /\ prev.op = "download_work"
    /\ run.op = "download_work"
    /\ prev.id = run.id
    /\ prev.fs0 = <<>>
    /\ prev.remote0 = run.remote0
    /\ prev.exc = "none"
    /\ run.exc = "none"

\* C2: two download_work calls in a row for the same id that both return,
\* the first on an empty tree, the remote unchanged in between: the first
\* fetches every payload of the work, the second fetches none, and both
\* request the record and the comment pages and write both JSON files.
C2_Idempotent ==
    TwoRuns =>
        LET work == run.remote0.works[run.id]
        IN /\ Cardinality(Positions(prev.log, "urlretrieve")) = NPayloads(work)
           /\ Positions(run.log, "urlretrieve") = {}
           /\ Cardinality(Positions(run.log, "skip")) = NPayloads(work)
           /\ Refreshed(prev, work)
           /\ Refreshed(run, work)

C2_Witness ==
    /\ TwoRuns
    /\ Cardinality(Positions(prev.log, "urlretrieve")) = 2
    /\ Cardinality(Positions(run.log, "skip")) = 2
    /\ run.log[Len(run.log)].ev = "download_work_end"

\* C3: when a _download_raw call for a target with a remote timestamp has
\* fetched and written the file, the file's modification time is that
\* timestamp, whatever the clock said during the write, and the staleness
\* test for the same timestamp finds the file up to date.
C3_MtimeForced ==
    \A i \in Positions(run.log, "download") :
        LET e == run.log[i - 2].what
        IN e.time # NoTime =>
            /\ fs[e.out].mtime = RemoteSeconds(e.time)
            /\ is_skippable([fs |-> fs], e.out, e.time)

\* a file written when the clock was past the remote timestamp
C3_Witness ==
    \E i \in Positions(run.log, "download") :
        /\ run.log[i - 2].what.time # NoTime
        /\ run.log[i - 2].what.existed
        /\ RemoteSeconds(run.log[i - 2].what.time) < now
        /\ run.fs0 # fs

\* the ids of the markers of a text, left to right
RECURSIVE MarkerIds(_)
MarkerIds(text) ==
    IF text = <<>> THEN <<>>
    ELSE LET rest == MarkerIds(SubSeq(text, 1, Len(text) - 1))
             tok == text[Len(text)]
         IN IF tok.t = "marker" /\ Len(tok.digits) > 0
            THEN Append(rest, ParseInt(tok.digits))
            ELSE rest

\* the events of one kind, in order
EventsOf(log, ev) == SelectSeq(log, LAMBDA e : e.ev = ev)

\* C8: in a download_novel run the text file is written before any
\* download_work call; the calls are made for the marker ids in the order of
\* the markers in the text, each call returning before the next starts (when
\* a call raises, the run ends there); a run that returns has made one call
\* per marker.
C8_NovelOrder ==
    run.op = "download_novel" =>
        LET starts == EventsOf(run.log, "download_work")
            ids == MarkerIds(run.remote0.novels[run.id].text)
        IN /\ Len(starts) <= Len(ids)
           /\ \A k \in 1..Len(starts) : starts[k].what = ids[k]
           /\ (run.exc = "none" => Len(starts) = Len(ids))
           /\ \A i \in Positions(run.log, "download_work") :
                \E j \in Positions(run.log, "write_text") : j < i
           /\ \A i, j \in Positions(run.log, "download_work") :
                i < j => \E m \in Positions(run.log, "download_work_end") :
                            i < m /\ m < j /\ run.log[m].what = run.log[i].what

\* markers 1 then 2: both works are downloaded, 1 before 2, after the text
C8_Witness ==
    /\ run.op = "download_novel"
    /\ run.exc = "none"
    /\ MarkerIds(run.remote0.novels[run.id].text) = <<1, 2>>
    /\ Len(EventsOf(run.log, "download_work")) = 2
    /\ Cardinality(Positions(run.log, "urlretrieve")) >= 2

RECURSIVE SumLen(_, _, _)
\* the number of records in the first m requested pages
SumLen(s, reqs, m) ==
    IF m = 0 THEN 0
    ELSE Len(ServerPage(s, reqs[m]).response) + SumLen(s, reqs, m - 1)

\* C4 as stated: against a server that ends with next = null, a finished
\* iteration has yielded the N records in the server's order and has made
\* exactly ceil(N/K) page requests, for every N >= 0.
C4_Original ==
    (cursor.phase = "done" /\ server.falsy = JNull) =>
        /\ consumed = [j \in 1..server.n |-> j]
        /\ Len(requested) = CeilDiv(server.n, server.k)

\* C4 (amended): a finished iteration has yielded exactly the N records in the
\* server's order; it has made ceil(N/K) page requests when N >= 1 and one
\* page request (for the empty page 1) when N = 0.
C4_Exhaustion ==
    (cursor.phase = "done" /\ server.falsy = JNull) =>
        /\ consumed = [j \in 1..server.n |-> j]
        /\ Len(requested) = IF server.n = 0 THEN 1 ELSE CeilDiv(server.n, server.k)

C4_Witness ==
    /\ cursor.phase = "done"
    /\ server.falsy = JNull
    /\ server.n >= 3
    /\ server.k = 2
    /\ Len(requested) = 2

\* C5: the first request is for page 1; when page i+1 is requested every
\* record of pages 1..i has been handed to the consumer; every page but the
\* last requested one carried a truthy next indicator, which is the page
\* requested after it; once the iteration is over no request was made after
\* the page with the falsy indicator.
C5_LazyForward ==
    /\ (requested # <<>> => requested[1] = 1)
    /\ (requested # <<>> => Len(consumed) >= SumLen(server, requested, Len(requested) - 1))
    /\ \A i \in 1..(Len(requested) - 1) :
          LET next == ServerPage(server, requested[i]).pagination.next
          IN Truthy(next) /\ requested[i + 1] = next.v
    /\ (cursor.phase = "done" =>
          ~Truthy(ServerPage(server, requested[Len(requested)]).pagination.next))

C5_Witness ==
    /\ cursor.phase = "done"
    /\ Len(requested) >= 2
    /\ server.falsy = JInt(0)
    /\ Len(consumed) = server.n

C12_SinglePage ==
    call.op \in {"core_singlepage", "api_singlepage"} =>
        /\ (call.env.pagination => call.exc # "none")
        /\ (~call.env.pagination /\ call.env.response.t = "list"
              /\ Len(call.env.response.items) = 1
              => call.exc = "none" /\ call.value = call.env.response.items[1])
        /\ (~call.env.pagination /\ call.env.response.t = "map"
              => call.exc = "none" /\ call.value = call.env.response)

\* the responses, among the first m accepted ones, whose Set-Cookie header
\* carries a pair `name=value;` for the name
Setters(m, name) ==
    {i \in 1..m : \E j \in 1..Len(setcookies[i].chunks) :
                     setcookies[i].chunks[j].semi /\ setcookies[i].chunks[j].name = name}

Largest(S) == CHOOSE x \in S : \A y \in S : y <= x

\* the value of the last pair `name=value;` for the name in a header
LastValue(header, name) ==
    LET js == {j \in 1..Len(header.chunks) :
                  header.chunks[j].semi /\ header.chunks[j].name = name}
    IN header.chunks[Largest(js)].value

\* the jar holds every name set in the first m accepted responses, with the
\* value of the most recent of them that set it
Merged(jar, m) ==
    \A name \in CookieNames :
        Setters(m, name) # {} =>
            /\ name \in DOMAIN jar
            /\ jar[name] = LastValue(setcookies[Largest(Setters(m, name))], name)

\* C16: after any sequence of requests through api.py's pipeline, every cookie
\* name that an earlier accepted response set (as a pair `name=value;` of its
\* Set-Cookie header) is in the jar with the value of the most recent response
\* that set it, and a request goes out with the jar of all accepted responses
\* before it; a failed request leaves the jar as it was.
C16_CookiesMerged ==
    /\ Merged(cookies, Len(setcookies))
    /\ call.op = "api_request" =>
          /\ Merged(call.sent, call.seen)
          /\ (call.exc # "none" => cookies = call.sent)

\* a third request goes out with b from the first response and a from the
\* second, and its own response changes b only
C16_Witness ==
    /\ call.op = "api_request"
    /\ Len(setcookies) = 3
    /\ setcookies[1] = SetCookie(<<Chunk("a", "1", TRUE), Chunk("b", "1", TRUE)>>)
    /\ setcookies[2] = SetCookie(<<Chunk("a", "2", TRUE)>>)
    /\ setcookies[3] = SetCookie(<<Chunk("b", "2", TRUE), Chunk("a", "3", FALSE)>>)
    /\ call.sent = ("a" :> "2") @@ ("b" :> "1")
    /\ cookies = ("a" :> "2") @@ ("b" :> "2")

\* C18 as stated: a paginated request built with the page number set (any
\* number) makes exactly one page fetch when it is built and returns that
\* page's records as a finite sequence; built with the page number unset it
\* makes no fetch and returns the lazy cursor.
C18_PageSet ==
    call.op = "multipages" =>
        IF call.page # JNull
        THEN /\ call.fetches = 1
             /\ ~call.lazy
             /\ call.value = JList(ServerPage(call.paged, call.page.v).response)
        ELSE /\ call.fetches = 0
             /\ call.lazy

\* C17 as stated: download_work sends every record to the handler of the kind
\* worktype returns for it, records with a text_length field included.
C17_Original ==
    (kind # "unset" /\ handler # "unset") => handler = kind

\* C17 (amended): for every record without a text_length field download_work
\* goes to the handler of the kind worktype returns (manga, ugoira or illust)
\* and raises where worktype raises (no is_manga: AttributeError; zip_urls
\* null: TypeError).  download_work has no novel route: a record with a
\* text_length field, which worktype calls a novel, is sent where the same
\* record without the field would be sent.
C17_Dispatch ==
    (kind # "unset" /\ handler # "unset") =>
        /\ (info.text_length = "absent" => handler = kind)
        /\ (info.text_length # "absent" =>
              /\ kind = "novel"
              /\ handler # "novel"
              /\ handler = worktype([info EXCEPT !.text_length = "absent"]))

\* a record that is both flagged manga and carries the archive entry goes to
\* the manga handler, as worktype says
C17_Witness ==
    /\ kind = "manga"
    /\ handler = "manga"
    /\ info.text_length = "absent"
    /\ info.metadata = "zip_ugoira"

\* C19: a process that dies in _download_raw between opening the target and
\* forcing its modification time leaves a truncated file stamped with the time
\* of the write; a later _download_raw for that target whose remote timestamp
\* is at or before that stamp finds the file present and up to date, skips
\* the fetch and leaves the truncated file as it is.
C19_CrashGap ==
    /\ run.exc = "crash" =>
          LET out == run.log[Len(run.log)].what
          IN /\ run.log[Len(run.log)].ev = "crash"
             /\ out \in DOMAIN fs
             /\ ~fs[out].data.whole
             /\ fs[out].mtime = run.now0
    /\ \A i \in Positions(run.log, "download_raw") :
          LET e == run.log[i].what
          IN (/\ e.time # NoTime
              /\ e.out \in DOMAIN run.fs0
              /\ ~run.fs0[e.out].data.whole
              /\ RemoteSeconds(e.time) <= run.fs0[e.out].mtime)
             => /\ run.log[i + 1] = Event("skip", e.out)
                /\ fs[e.out] = run.fs0[e.out]

\* the call after the crash returns, a clock tick later, without repairing the
\* truncated file
C19_Witness ==
    /\ prev.exc = "crash"
    /\ run.exc = "none"
    /\ run.id = prev.id
    /\ \E i \in Positions(run.log, "download_raw") :
          /\ ~fs[run.log[i].what.out].data.whole
          /\ fs[run.log[i].what.out].mtime < now
          /\ run.log[i + 1].ev = "skip"

\* the novel's text file was there before the run, stamped at or after the
\* novel's remote timestamp
TextUpToDate(r) ==
    LET novel == r.remote0.novels[r.id]
        out == novel_outpath(novel, "txt")
    IN /\ out \in DOMAIN r.fs0
       /\ r.fs0[out].mtime >= RemoteSeconds(novel.reuploaded_time)

\* C14 as stated: when download_novel runs and the novel's text file exists
\* with a modification time at or after the novel's remote timestamp, the text
\* body is not fetched and the text file is not written, while the novel's
\* record and comments are still requested and saved.
C14_TextSkipped ==
    (run.op = "download_novel" /\ TextUpToDate(run)) =>
        LET novel == run.remote0.novels[run.id]
        IN /\ Positions(run.log, "html") = {}
           /\ Positions(run.log, "write_text") = {}
           /\ (run.exc = "none" =>
                 /\ Event("api", <<"novels", run.id>>) \in {run.log[i] : i \in 1..Len(run.log)}
                 /\ Event("save_json", novel_info_outpath(novel, "json"))
                      \in {run.log[i] : i \in 1..Len(run.log)}
                 /\ Event("save_json", novel_comments_outpath(novel, "json"))
                      \in {run.log[i] : i \in 1..Len(run.log)})

RECURSIVE Depth(_, _)
\* the number of download_work calls that are running after the first m
\* events of a log (a call that raised ends the run: it is never left)
Depth(log, m) ==
    IF m = 0 THEN 0
    ELSE Depth(log, m - 1) + (IF log[m].ev = "download_work" THEN 1
                              ELSE IF log[m].ev = "download_work_end" THEN -1 ELSE 0)

\* how often an id occurs in a sequence of ids
Occurrences(ids, id) == Cardinality({k \in 1..Len(ids) : ids[k] = id})

\* the ids of the download_work calls of a log, in order
Started(log) ==
    LET starts == EventsOf(log, "download_work")
    IN [k \in 1..Len(starts) |-> starts[k].what]

\* C20 as stated: in every download_novel invocation (that got as far as the
\* text) the number of download_work calls equals the number of markers in
\* the text, whatever identifiers the markers name, and no download_work call
\* runs inside another.
C20_Original ==
    (run.op = "download_novel" /\ Positions(run.log, "write_text") # {}) =>
        /\ Len(Started(run.log)) = Len(MarkerIds(run.remote0.novels[run.id].text))
        /\ \A m \in 1..Len(run.log) : Depth(run.log, m) <= 1

\* C20 (amended): a download_novel invocation ends after at most one
\* download_work call per marker, none of them inside another and none of
\* them starting download_novel again; an invocation that returns has made
\* exactly one call per marker occurrence (an identifier named by k markers is
\* downloaded k times), and one that raises has made the calls for the markers
\* up to the one whose download raised and none after it.
C20_Expansion ==
    run.op = "download_novel" =>
        LET ids == MarkerIds(run.remote0.novels[run.id].text)
            done == Started(run.log)
        IN /\ \A m \in 1..Len(run.log) : Depth(run.log, m) \in {0, 1}
           /\ Cardinality(Positions(run.log, "download_novel")) = 1
           /\ Len(done) <= Len(ids)
           /\ (run.exc = "none" =>
                 /\ Depth(run.log, Len(run.log)) = 0
                 /\ \A id \in {ids[k] : k \in 1..Len(ids)} :
                       Occurrences(done, id) = Occurrences(ids, id))
           /\ (run.exc # "none" /\ done # <<>> =>
                 /\ done = SubSeq(ids, 1, Len(done))
                 /\ Cardinality(Positions(run.log, "download_work_end")) >= Len(done) - 1)

\* a text that names work 1 twice: work 1 is downloaded twice
C20_Witness ==
    /\ run.op = "download_novel"
    /\ run.exc = "none"
    /\ MarkerIds(run.remote0.novels[run.id].text) = <<1, 1>>
    /\ Started(run.log) = <<1, 1>>
    /\ Cardinality(Positions(run.log, "download_work_end")) = 2


\* the user-catalogue operations
UserOps == {"download_user_works", "download_user_novels", "download_user_all"}

NetEvents == {"api", "page", "urlretrieve", "html"}

\* the m-th event of the run is the network call that failed
Faulted(m) ==
    /\ run.fault # 0
    /\ run.log[m].ev \in NetEvents
    /\ Cardinality({i \in 1..m : run.log[i].ev \in NetEvents}) = run.fault

\* a request that resolves an identifier: its record or a page of its comments
Resolving(e) ==
    \/ e.ev = "api" /\ e.what[1] \in {"works", "novels"}
    \/ e.ev = "page" /\ e.what[1][1] \in {"works_comments", "novels_comments"}

\* the identifier such a request resolves, and the directory of its files
ResolvedId(e) == IF e.ev = "api" THEN e.what[2] ELSE e.what[1][2]
ResolvedDir(e) ==
    IF e.ev = "api" THEN e.what[1]
    ELSE IF e.what[1][1] = "works_comments" THEN "works" ELSE "novels"

\* the server has no record of the identifier the m-th event asks for
Unknown(m) ==
    /\ run.log[m].ev = "api"
    /\ run.log[m].what[1] \in {"works", "novels"}
    /\ run.log[m].what[2] \notin DOMAIN run.remote0[run.log[m].what[1]]

\* the start of the download_work or download_novel call the m-th event is in
CallStart(m) ==
    LET starts == {i \in 1..m : run.log[i].ev \in {"download_work", "download_novel"}}
    IN CHOOSE i \in starts : \A j \in starts : j <= i

\* C15: when the request for an identifier's record or for a page of its
\* comments fails, the call raises that error and does nothing after the
\* failed request (no retry, no catch); from the start of the identifier's
\* download to the failure nothing is fetched and nothing is written but the
\* identifier's own record file; and when the identifier is the one the
\* caller asked for, every file the caller's earlier calls left in the tree
\* has its content and modification time as before, the identifier's own
\* record file excepted.
C15_Propagates ==
    run.op \in {"download_work", "download_novel"} =>
        \A m \in 1..Len(run.log) :
            (Resolving(run.log[m]) /\ (Faulted(m) \/ Unknown(m))) =>
                LET id == ResolvedId(run.log[m])
                    dir == ResolvedDir(run.log[m])
                    s == CallStart(m)
                    Own(path) == path.id = id /\ path.dir = dir /\ path.suffix = "_info"
                IN /\ run.exc = "PixivError"
                   /\ m = Len(run.log)
                   /\ \A i \in s..m :
                         /\ run.log[i].ev \notin {"urlretrieve", "download_raw", "download",
                                                  "skip", "html", "write_text", "crash"}
                         /\ run.log[i].ev = "save_json" => Own(run.log[i].what)
                   /\ s = 1 =>
                         \A path \in DOMAIN run.fs0 :
                             ~Own(path) =>
                                 /\ path \in DOMAIN fs
                                 /\ fs[path] = run.fs0[path]

\* the caller downloads work 1 and then work 2, whose comments fail: work 1's
\* image is as the first call left it, work 2's record is saved and its image
\* is not fetched
C15_Witness ==
    /\ prev.op = "download_work" /\ prev.id = 1 /\ prev.exc = "none"
    /\ run.op = "download_work" /\ run.id = 2
    /\ run.exc = "PixivError"
    /\ Faulted(Len(run.log))
    /\ run.log[Len(run.log)].ev = "page"
    /\ run.log[Len(run.log)].what[1] = <<"works_comments", 2>>
    /\ \E path \in DOMAIN run.fs0 : path.id = 1 /\ path.suffix = "" /\ path \in DOMAIN fs
    /\ \E path \in DOMAIN fs : path.id = 2 /\ path.suffix = "_info"
    /\ \A path \in DOMAIN fs : path.id = 2 => path.suffix = "_info"


\* the user's catalogue a catalogue download walks through
Catalogue(op, rem) ==
    IF op = "download_user_works" THEN rem.user_works ELSE rem.user_novels

\* the exception the download of one catalogue item ends with when it is
\* made on its own in the world the invocation started in ("none": it returns)
ItemError(op, id) ==
    LET w0 == [World(0) EXCEPT !.fs = run.fs0, !.now = run.now0, !.remote = run.remote0]
    IN IF op = "download_user_works" THEN download_work(w0, <<id>>).exc
       ELSE download_novel(w0, id).exc

\* the record file of a catalogue item
ItemInfoPath(op, rem, id) ==
    IF op = "download_user_works" THEN work_info_outpath(rem.works[id], "json")
    ELSE novel_info_outpath(rem.novels[id], "json")

====
